---- MODULE Spec2Model ----
(***************************************************************************)
(* Business definition resolution of postprocess.py: the OpenAPI schema    *)
(* walker, the ODCS property walker, the definition loader and the merge   *)
(* policy, run by the __main__ block as two pipeline runs in sequence.     *)
(*                                                                         *)
(* A YAML mapping is a function from its keys to values; the Python object *)
(* graph of a loaded document is a heap of mappings, a nested mapping      *)
(* being the heap index of the child.  Property names under `properties`   *)
(* and `schemas` are not kept: the code only iterates .values().           *)
(*                                                                         *)
(* Spec is one process of the script.  RerunSpec lets the script be run    *)
(* again on the files the earlier process left.  AnyOrderSpec is the       *)
(* OpenAPI walk with the order of its loops left open.                     *)
(***************************************************************************)
EXTENDS Integers, Sequences, FiniteSets, TLC

VARIABLES
    pc,       \* position in __main__ / postprocess_openapi / postprocess_odcs
    fs,       \* the filesystem: path -> file
    heap,     \* the loaded document (`spec` or `contract`), mutated in place
    loaded,   \* which document heap holds: "", "openapi" or "odcs"
    stack,    \* pending process_schema / process_odcs_property calls, next first
    visited,  \* history: the mappings the walker has been invoked on, in order
    calls,    \* history: the calls of resolve_business_definition
    out,      \* history: what was printed
    writes,   \* history: the files opened for writing, in order
    err,      \* the exception that ended the process, if any
    starts,   \* history: the filesystem as each process so far found it
    todo      \* the merge in progress where it is taken entry by entry

vars == <<pc, fs, heap, loaded, stack, visited, calls, out, writes, err,
          starts, todo>>

----------------------------------------------------------------------------
(* YAML values.  t is the Python type the loader gives the value.          *)

Str(x)    == [t |-> "str",  s |-> x,       c |-> <<>>]
Bool(b)   == [t |-> "bool", s |-> IF b THEN "true" ELSE "false", c |-> <<>>]
Null      == [t |-> "null", s |-> "null",  c |-> <<>>]
\* a sequence of scalars, by its flow text
List(x)   == [t |-> "list", s |-> x,       c |-> <<>>]
\* a nested mapping: c holds its heap index
Obj(n)    == [t |-> "dict", s |-> "",      c |-> <<n>>]
\* a sequence of mappings (allOf, parameters, schema, ...): c holds the
\* heap indices of its elements, NonDict for an element that is no mapping
Seqn(ids) == [t |-> "seq",  s |-> "",      c |-> ids]
\* a mapping of names to mappings (properties, schemas, paths): c holds the
\* heap indices of its values, in document order
Map(ids)  == [t |-> "map",  s |-> "",      c |-> ids]

NonDict   == 0
EmptyDict == [k \in {} |-> Null]

\* Python truthiness of a scalar value (bool(None), bool(False), bool(""),
\* bool([]) are False)
Falsy(v) == \/ v.t = "null"
            \/ v.t = "bool" /\ v.s = "false"
            \/ v.t = "str"  /\ v.s = ""
            \/ v.t = "list" /\ v.s = "[]"

----------------------------------------------------------------------------
(* str.startswith, str.removeprefix, Path.parent and Path.__truediv__      *)

StartsWith(s, p) == Len(s) >= Len(p) /\ SubSeq(s, 1, Len(p)) = p

RemovePrefix(s, p) ==
    IF StartsWith(s, p) THEN SubSeq(s, Len(p) + 1, Len(s)) ELSE s

RECURSIVE LastSlash(_, _)
LastSlash(s, i) ==
    IF i = 0 THEN 0
    ELSE IF SubSeq(s, i, i) = "/" THEN i
    ELSE LastSlash(s, i - 1)

\* Path(p).parent of a relative path
Parent(p) ==
    LET i == LastSlash(p, Len(p))
    IN  IF i = 0 THEN "." ELSE SubSeq(p, 1, i - 1)

\* base / rel: an absolute right operand replaces the left one
JoinPath(base, rel) ==
    IF StartsWith(rel, "/") THEN rel
    ELSE IF base = "." THEN rel
    ELSE base \o "/" \o rel

----------------------------------------------------------------------------
(* Files.  A file holds YAML text: malformed, or a document whose mappings *)
(* are `nodes` with the top-level mapping at index `root` (root = 0: the   *)
(* file is empty and yaml.safe_load returns None).                         *)

YamlFile(nodes)  == [kind |-> "yaml", nodes |-> nodes, root |-> 1]
EmptyFile        == [kind |-> "yaml", nodes |-> <<>>, root |-> 0]
MalformedFile    == [kind |-> "malformed", nodes |-> <<>>, root |-> 0]

\* the paths of the __main__ block
GenDir         == "gen"
OpenapiInput   == "order-api.yaml"
OpenapiOutput  == JoinPath(GenDir, "order-api-resolved.yaml")
OdcsInput      == "order-data-contract.yaml"
OdcsOutput     == JoinPath(GenDir, "order-data-contract-resolved.yaml")

\* definition files beside the documents
OrderIdPath    == "defs/order_id.yaml"
EmailPath      == "defs/customer_email.yaml"
BrokenPath     == "defs/broken.yaml"
MissingPath    == "defs/missing.yaml"

----------------------------------------------------------------------------
(* Business definition files.                                              *)

\* the spec's example definition: {title, type, pii: false}
PartialDef ==
    ("title" :> Str("Order ID")) @@ ("type" :> Str("string")) @@
    ("pii" :> Bool(FALSE))

\* a definition with every recognized key and the collaborator tooling's keys
FullDef ==
    ("title" :> Str("Order ID")) @@ ("type" :> Str("string")) @@
    ("description" :> Str("Unique identifier of an order")) @@
    ("format" :> Str("uuid")) @@ ("pattern" :> Str("^ORD-[0-9]+$")) @@
    ("classification" :> Str("internal")) @@ ("pii" :> Bool(FALSE)) @@
    ("criticalDataElement" :> Bool(TRUE)) @@
    ("examples" :> List("[ORD-1, ORD-2]")) @@ ("enum" :> List("[ORD-1]")) @@
    ("id" :> Str("order_id")) @@ ("owner" :> Str("sales")) @@
    ("domain" :> Str("orders")) @@ ("tags" :> List("[core]"))

\* a definition that itself refers to another definition
ChainDef ==
    ("title" :> Str("Order ID")) @@ ("description" :> Str("")) @@
    ("criticalDataElement" :> Bool(FALSE)) @@
    ("x-business-definition" :> Str("file://defs/customer_email.yaml")) @@
    ("authoritativeDefinitions" :> List("[]"))

EmailDef ==
    ("title" :> Str("Customer Email")) @@ ("type" :> Str("string")) @@
    ("description" :> Str("Contact address of the customer")) @@
    ("format" :> Str("email")) @@ ("pattern" :> Str("^.+@.+$")) @@
    ("classification" :> Str("confidential")) @@ ("pii" :> Bool(TRUE)) @@
    ("criticalDataElement" :> Bool(FALSE)) @@
    ("examples" :> List("[a@example.com]")) @@ ("enum" :> List("[]")) @@
    ("owner" :> Str("crm"))

\* what defs/order_id.yaml may hold
DefChoices ==
    {YamlFile(<<FullDef>>), YamlFile(<<PartialDef>>), YamlFile(<<ChainDef>>),
     EmptyFile}

----------------------------------------------------------------------------
(* The OpenAPI input documents.                                            *)

OrderIdRef == "file://defs/order_id.yaml"
EmailRef   == "file://defs/customer_email.yaml"

\* the reference the varying schema node may carry
RefChoices ==
    {OrderIdRef, "file://defs/missing.yaml", "file://defs/broken.yaml",
     "https://example.com/defs/order_id.yaml", "defs/order_id.yaml"}

\* the fields the varying schema node may already have
OpenapiPresets ==
    {EmptyDict,
     ("type" :> Str("integer")),
     ("description" :> Null) @@ ("x-pii" :> Bool(FALSE)) @@
     ("examples" :> List("[]")) @@ ("title" :> Str(""))}

Shapes == {"full", "noComponents", "noSchemas", "noPaths", "bare"}

BDef(ref) == ("x-business-definition" :> Str(ref))

\* heap indices in OpenapiDoc: the varying schema node, the node reached
\* through properties -> items -> allOf[1] -> properties, the node that has
\* all five child keys at once, and the schema of a path-level parameter
OpenapiIx == [var |-> 4, deep |-> 10, multi |-> 11, pathParam |-> 21]

OpenapiDoc(shape, ref, preset) ==
    << \* 1: the document
       ("openapi" :> Str("3.1.0")) @@
       (IF shape \in {"full", "noSchemas", "noPaths"}
        THEN ("components" :> Obj(2)) ELSE EmptyDict) @@
       (IF shape \in {"full", "noSchemas", "noComponents"}
        THEN ("paths" :> Map(<<9>>)) ELSE EmptyDict),
       \* 2: components
       IF shape = "noSchemas" THEN ("securitySchemes" :> Map(<<>>))
       ELSE ("schemas" :> Map(<<3>>)),
       \* 3: components.schemas.Order
       ("type" :> Str("object")) @@ ("properties" :> Map(<<5, 4>>)),
       \* 4: Order.properties.order_id
       BDef(ref) @@ preset,
       \* 5: Order.properties.lines
       ("type" :> Str("array")) @@ ("items" :> Obj(6)),
       \* 6: lines.items
       ("allOf" :> Seqn(<<7, 8>>)),
       \* 7, 8: the allOf branches
       BDef(EmailRef) @@ ("type" :> Str("string")),
       ("properties" :> Map(<<10>>)),
       \* 9: paths./orders
       ("summary" :> Str("Orders")) @@ ("parameters" :> Seqn(<<20>>)) @@
       ("get" :> Obj(12)),
       \* 10: allOf[1].properties.sku
       BDef(OrderIdRef),
       \* 11: the schema of the get operation's first parameter
       BDef(EmailRef) @@ ("properties" :> Map(<<15>>)) @@ ("items" :> Obj(16)) @@
       ("allOf" :> Seqn(<<17>>)) @@ ("oneOf" :> Seqn(<<18>>)) @@
       ("anyOf" :> Seqn(<<19, NonDict>>)),
       \* 12: paths./orders.get
       ("operationId" :> Str("listOrders")) @@ ("parameters" :> Seqn(<<13, 14>>)),
       \* 13, 14: its parameters, the second without a schema
       ("name" :> Str("id")) @@ ("schema" :> Obj(11)),
       ("name" :> Str("page")),
       \* 15 .. 19: the children of 11
       BDef(OrderIdRef),
       BDef(EmailRef) @@ ("description" :> Str("kept")),
       BDef(OrderIdRef) @@ ("title" :> Str("kept")),
       BDef(EmailRef),
       BDef(OrderIdRef) @@ ("items" :> Bool(FALSE)),
       \* 20, 21: a path-level parameter and its schema
       ("name" :> Str("tenant")) @@ ("schema" :> Obj(21)),
       BDef(EmailRef)
    >>

OpenapiFiles ==
    {YamlFile(OpenapiDoc(sh, r, p)) :
        sh \in Shapes, r \in RefChoices, p \in OpenapiPresets}
    \cup {MalformedFile}

\* the document used while the ODCS input varies
BareOpenapi == YamlFile(OpenapiDoc("bare", OrderIdRef, EmptyDict))

----------------------------------------------------------------------------
(* The ODCS input documents.                                               *)

\* the most link records the varying property carries
MaxLinks == 2

Link(type, url) == ("type" :> Str(type)) @@ ("url" :> Str(url))

LinkChoices ==
    {Link("businessDefinition", OrderIdRef),
     Link("businessDefinition", EmailRef),
     Link("implementation", EmailRef),
     ("type" :> Str("businessDefinition")),
     ("url" :> Str(EmailRef)),
     Link("businessDefinition", "file://defs/missing.yaml"),
     Link("businessDefinition", "file://defs/broken.yaml"),
     Link("businessDefinition", "https://example.com/defs/order_id.yaml")}

LinkLists == UNION {[1..n -> LinkChoices] : n \in 0..MaxLinks}

\* the fields the varying property may already have
OdcsPresets ==
    {EmptyDict,
     ("logicalType" :> Str("integer")),
     ("businessName" :> Str("")) @@ ("description" :> Null) @@
     ("criticalDataElement" :> Bool(FALSE)) @@ ("examples" :> List("[]"))}

\* heap indices in OdcsDoc: the varying property, the property nested in
\* another one, and the last mapping before the varying property's links
OdcsIx == [var |-> 4, nested |-> 6, base |-> 10]

OdcsDoc(links, preset) ==
    << \* 1: the contract
       ("kind" :> Str("DataContract")) @@ ("schema" :> Seqn(<<2, 3>>)),
       \* 2, 3: schema objects, the second without properties
       ("name" :> Str("orders")) @@ ("properties" :> Seqn(<<5, 4, 9>>)),
       ("name" :> Str("audit")),
       \* 4: the varying property
       ("name" :> Str("order_id")) @@ preset @@
       (IF Len(links) = 0 THEN EmptyDict
        ELSE ("authoritativeDefinitions" :>
                  Seqn([i \in 1..Len(links) |-> OdcsIx.base + i]))),
       \* 5: a property with a nested property
       ("name" :> Str("customer")) @@
       ("authoritativeDefinitions" :> Seqn(<<7>>)) @@
       ("properties" :> Seqn(<<6>>)),
       \* 6: the nested property
       ("name" :> Str("email")) @@ ("authoritativeDefinitions" :> Seqn(<<8>>)),
       \* 7, 8: link records
       Link("businessDefinition", EmailRef),
       Link("businessDefinition", EmailRef),
       \* 9, 10: a later property and its link record
       ("name" :> Str("total")) @@ ("authoritativeDefinitions" :> Seqn(<<10>>)),
       Link("businessDefinition", OrderIdRef)
    >> \o links

OdcsFiles ==
    {YamlFile(OdcsDoc(l, p)) : l \in LinkLists, p \in OdcsPresets}
    \cup {MalformedFile}

\* the document used while the OpenAPI input varies
PlainOdcs ==
    YamlFile(OdcsDoc(<<Link("businessDefinition", OrderIdRef)>>, EmptyDict))

\* a contract without schema: its properties are not under a schema object
NoSchemaOdcs ==
    YamlFile(<< ("kind" :> Str("DataContract")) @@ ("properties" :> Seqn(<<2>>)),
                ("name" :> Str("order_id")) @@
                ("authoritativeDefinitions" :> Seqn(<<3>>)),
                Link("businessDefinition", OrderIdRef) >>)

\* the references that resolve to nothing without an exception
SoftRefs ==
    {"file://defs/missing.yaml", "https://example.com/defs/order_id.yaml"}

\* the full document with the reference of one of its nodes, whichever,
\* replaced by one that resolves to nothing
FailAt(nodes, n, ref) ==
    [nodes EXCEPT ![n] = ("x-business-definition" :> Str(ref)) @@ @]

SoftFailFiles ==
    LET nodes == OpenapiDoc("full", OrderIdRef, EmptyDict)
    IN  {YamlFile(FailAt(nodes, n, r)) :
            n \in {m \in DOMAIN nodes : "x-business-definition" \in DOMAIN nodes[m]},
            r \in SoftRefs}

\* both documents with a reference to a missing file: on the schema node
\* with all five child keys, and as the first link of the varying property
SoftFailPair ==
    << YamlFile(FailAt(OpenapiDoc("full", OrderIdRef, EmptyDict),
                       OpenapiIx.multi, "file://defs/missing.yaml")),
       YamlFile(OdcsDoc(<<Link("businessDefinition", "file://defs/missing.yaml"),
                          Link("businessDefinition", OrderIdRef)>>,
                        EmptyDict)) >>

\* the pairs of input documents
Inputs ==
    (OpenapiFiles \X {PlainOdcs})
    \cup ({BareOpenapi, MalformedFile} \X OdcsFiles)
    \cup (SoftFailFiles \X {PlainOdcs})
    \cup ({BareOpenapi} \X {NoSchemaOdcs})
    \cup {SoftFailPair}

----------------------------------------------------------------------------
(* load_yaml and resolve_business_definition                               *)

\* load_yaml: yaml.safe_load raises on malformed text, gives None for an
\* empty file and the top-level mapping otherwise
LoadYaml(files, path) ==
    [raise |-> files[path].kind = "malformed",
     none  |-> files[path].root = 0,
     nodes |-> files[path].nodes]

\* the result of a call: whether it raised, whether it returned None, the
\* mapping it returned, the files it opened and the warnings it printed
NotResolved(warns) ==
    [raise |-> FALSE, none |-> TRUE, d |-> EmptyDict, reads |-> <<>>,
     warns |-> warns]

NotFound(file_path) == "Warning: Business definition not found: " \o file_path

\* without the exists() check: open() raises for a missing file
ResolveNoExistsCheck(ref, base_path, files) ==
    IF ~StartsWith(ref, "file://") THEN NotResolved(<<>>)
    ELSE LET file_path == JoinPath(base_path, RemovePrefix(ref, "file://"))
         IN  IF file_path \notin DOMAIN files
             THEN [raise |-> TRUE, none |-> TRUE, d |-> EmptyDict,
                   reads |-> <<file_path>>, warns |-> <<>>]
             ELSE LET y == LoadYaml(files, file_path)
                  IN  [raise |-> y.raise,
                       none  |-> y.raise \/ y.none,
                       d     |-> IF y.raise \/ y.none THEN EmptyDict
                                 ELSE y.nodes[1],
                       reads |-> <<file_path>>,
                       warns |-> <<>>]

\* without the startswith check: every reference is taken for a path
ResolveAnyScheme(ref, base_path, files) ==
    LET file_path == JoinPath(base_path, RemovePrefix(ref, "file://"))
    IN  IF file_path \notin DOMAIN files
        THEN NotResolved(<<NotFound(file_path)>>)
        ELSE LET y == LoadYaml(files, file_path)
             IN  [raise |-> y.raise,
                  none  |-> y.raise \/ y.none,
                  d     |-> IF y.raise \/ y.none THEN EmptyDict
                            ELSE y.nodes[1],
                  reads |-> <<file_path>>,
                  warns |-> <<>>]

\* with the parse error caught and turned into None
ResolveSwallow(ref, base_path, files) ==
    IF ~StartsWith(ref, "file://") THEN NotResolved(<<>>)
    ELSE LET file_path == JoinPath(base_path, RemovePrefix(ref, "file://"))
         IN  IF file_path \notin DOMAIN files
             THEN NotResolved(<<NotFound(file_path)>>)
             ELSE LET y == LoadYaml(files, file_path)
                  IN  [raise |-> FALSE,
                       none  |-> y.raise \/ y.none,
                       d     |-> IF y.raise \/ y.none THEN EmptyDict
                                 ELSE y.nodes[1],
                       reads |-> <<file_path>>,
                       warns |-> <<>>]

\* following the reference a loaded definition itself carries, one hop
ResolveMultiHop(ref, base_path, files) ==
    IF ~StartsWith(ref, "file://") THEN NotResolved(<<>>)
    ELSE LET file_path == JoinPath(base_path, RemovePrefix(ref, "file://"))
         IN  IF file_path \notin DOMAIN files
             THEN NotResolved(<<NotFound(file_path)>>)
             ELSE LET y == LoadYaml(files, file_path)
                      d == IF y.raise \/ y.none THEN EmptyDict ELSE y.nodes[1]
                      next == IF "x-business-definition" \in DOMAIN d
                              THEN JoinPath(base_path, RemovePrefix(
                                       d["x-business-definition"].s, "file://"))
                              ELSE file_path
                      hop == next # file_path /\ next \in DOMAIN files
                      z == IF hop THEN LoadYaml(files, next) ELSE y
                  IN  [raise |-> y.raise \/ z.raise,
                       none  |-> y.raise \/ y.none,
                       d     |-> IF hop /\ ~z.raise /\ ~z.none
                                 THEN d @@ z.nodes[1] ELSE d,
                       reads |-> IF hop THEN <<file_path, next>>
                                 ELSE <<file_path>>,
                       warns |-> <<>>]

ResolveBusinessDefinition(ref, base_path, files) ==
    IF ~StartsWith(ref, "file://") THEN NotResolved(<<>>)
    ELSE LET file_path == JoinPath(base_path, RemovePrefix(ref, "file://"))
         IN  IF file_path \notin DOMAIN files
             THEN NotResolved(<<NotFound(file_path)>>)
             ELSE LET y == LoadYaml(files, file_path)
                  IN  [raise |-> y.raise,
                       none  |-> y.raise \/ y.none,
                       d     |-> IF y.raise \/ y.none THEN EmptyDict
                                 ELSE y.nodes[1],
                       reads |-> <<file_path>>,
                       warns |-> <<>>]

\* `if business_def:`: neither None nor an empty mapping
Truthy(r) == ~r.none /\ DOMAIN r.d # {}

----------------------------------------------------------------------------
(* The mapping tables and the merge                                        *)

\* the table with 'title' written to 'description'
OpenapiMappingCollide ==
    << <<"type", "type">>, <<"description", "description">>,
       <<"examples", "examples">>, <<"enum", "enum">>,
       <<"pattern", "pattern">>, <<"classification", "x-classification">>,
       <<"pii", "x-pii">>,
       <<"criticalDataElement", "x-criticalDataElement">>,
       <<"title", "description">> >>

OpenapiMapping ==
    << <<"type", "type">>, <<"description", "description">>,
       <<"examples", "examples">>, <<"enum", "enum">>,
       <<"pattern", "pattern">>, <<"classification", "x-classification">>,
       <<"pii", "x-pii">>,
       <<"criticalDataElement", "x-criticalDataElement">>,
       <<"title", "title">> >>

OdcsMapping ==
    << <<"title", "businessName">>, <<"type", "logicalType">>,
       <<"description", "description">>,
       <<"classification", "classification">>, <<"examples", "examples">>,
       <<"criticalDataElement", "criticalDataElement">> >>

\* the body of the loop for one entry
MergeEntry(target, source, entry) ==
    LET source_key == entry[1]
        target_key == entry[2]
    IN  IF source_key \in DOMAIN source /\ target_key \notin DOMAIN target
        THEN (target_key :> source[source_key]) @@ target
        ELSE target

\* one entry after the other: copy when the source has the source key and
\* the target lacks the target key
RECURSIVE MergeLoop(_, _, _, _)
MergeLoop(target, source, mapping, i) ==
    IF i > Len(mapping) THEN target
    ELSE LET source_key == mapping[i][1]
             target_key == mapping[i][2]
         IN  MergeLoop(IF source_key \in DOMAIN source
                          /\ target_key \notin DOMAIN target
                       THEN (target_key :> source[source_key]) @@ target
                       ELSE target,
                       source, mapping, i + 1)

\* the merge gated by the truthiness of the target's value
\* (`not target.get(target_key)`) instead of the key's presence
RECURSIVE MergeLoopTruthy(_, _, _, _)
MergeLoopTruthy(target, source, mapping, i) ==
    IF i > Len(mapping) THEN target
    ELSE LET source_key == mapping[i][1]
             target_key == mapping[i][2]
         IN  MergeLoopTruthy(
                 IF source_key \in DOMAIN source
                    /\ (target_key \notin DOMAIN target
                        \/ Falsy(target[target_key]))
                 THEN (target_key :> source[source_key]) @@ target
                 ELSE target,
                 source, mapping, i + 1)

MergePropertiesTruthy(target, source) ==
    MergeLoopTruthy(target, source, OpenapiMapping, 1)

\* the merge writing every source key under its own name
MergePropertiesNoRename(target, source) ==
    MergeLoop(target, source,
              [i \in 1..Len(OpenapiMapping) |->
                  <<OpenapiMapping[i][1], OpenapiMapping[i][1]>>], 1)

\* the merge adding the source's examples to those the target has
\* (`target['examples'] = target['examples'] + source['examples']`)
MergePropertiesAppend(target, source) ==
    LET merged == MergeLoop(target, source, OpenapiMapping, 1)
    IN  IF "examples" \in DOMAIN source \cap DOMAIN target
        THEN ("examples" :>
                 List(target["examples"].s \o source["examples"].s)) @@ merged
        ELSE merged

\* the merge copying every key of the source the target lacks
\* (`for key in source: target.setdefault(key, source[key])`)
MergePropertiesCopyAll(target, source) == target @@ source

MergeProperties(target, source) == MergeLoop(target, source, OpenapiMapping, 1)

\* the ODCS property merged with the OpenAPI table
OdcsMergeOpenapiTable(prop, business_def) ==
    MergeLoop(prop, business_def, OpenapiMapping, 1)

\* the six ifs of process_odcs_property
OdcsMerge(prop, business_def) == MergeLoop(prop, business_def, OdcsMapping, 1)

----------------------------------------------------------------------------
(* process_schema                                                          *)

RefKey == "x-business-definition"

CallEntry(run, site, ref, r) ==
    [run |-> run, site |-> site, ref |-> ref, raise |-> r.raise,
     none |-> r.none, reads |-> r.reads, warns |-> r.warns]

\* the argument of process_schema(schema['items']): a mapping or not
Arg(v) == IF v.t = "dict" THEN v.c ELSE <<NonDict>>

\* the recursive calls as an if / elif chain: the first key present only
SchemaCallsExclusive(schema) ==
    IF "properties" \in DOMAIN schema THEN schema["properties"].c
    ELSE IF "items" \in DOMAIN schema THEN Arg(schema["items"])
    ELSE IF "allOf" \in DOMAIN schema THEN schema["allOf"].c
    ELSE IF "oneOf" \in DOMAIN schema THEN schema["oneOf"].c
    ELSE IF "anyOf" \in DOMAIN schema THEN schema["anyOf"].c
    ELSE <<>>

\* the recursive calls of one invocation, in order
SchemaCalls(schema) ==
    (IF "properties" \in DOMAIN schema THEN schema["properties"].c ELSE <<>>)
    \o (IF "items" \in DOMAIN schema THEN Arg(schema["items"]) ELSE <<>>)
    \o (IF "allOf" \in DOMAIN schema THEN schema["allOf"].c ELSE <<>>)
    \o (IF "oneOf" \in DOMAIN schema THEN schema["oneOf"].c ELSE <<>>)
    \o (IF "anyOf" \in DOMAIN schema THEN schema["anyOf"].c ELSE <<>>)

\* the reference of one invocation resolved and merged: whether it raised,
\* the mapping afterwards, and the log of the call
ResolveSchema(id, schema, base_path, files) ==
    IF RefKey \notin DOMAIN schema
    THEN [raise |-> FALSE, node |-> schema, calls |-> <<>>]
    ELSE LET ref == schema[RefKey].s
             business_def == ResolveBusinessDefinition(ref, base_path, files)
         IN  [raise |-> business_def.raise,
              node  |-> IF ~business_def.raise /\ Truthy(business_def)
                        THEN MergeProperties(schema, business_def.d)
                        ELSE schema,
              calls |-> <<CallEntry("openapi", id, ref, business_def)>>]

\* process_schema called on each of `pending` in turn, each call with the
\* calls it makes itself, depth first
RECURSIVE WalkSchemas(_, _, _, _)
WalkSchemas(h, pending, base_path, files) ==
    IF pending = <<>> THEN [raise |-> FALSE, h |-> h]
    ELSE LET id == Head(pending)
         IN  IF id = NonDict
             THEN WalkSchemas(h, Tail(pending), base_path, files)
             ELSE LET r == ResolveSchema(id, h[id], base_path, files)
                  IN  IF r.raise THEN [raise |-> TRUE, h |-> h]
                      ELSE WalkSchemas([h EXCEPT ![id] = r.node],
                                       SchemaCalls(r.node) \o Tail(pending),
                                       base_path, files)

----------------------------------------------------------------------------
(* process_odcs_property                                                   *)

LinksKey == "authoritativeDefinitions"

\* the link test without the type: 'url' in auth_def
LinkQualifiesAnyType(auth_def) == "url" \in DOMAIN auth_def

\* auth_def.get('type') == 'businessDefinition' and 'url' in auth_def
LinkQualifies(auth_def) ==
    /\ "type" \in DOMAIN auth_def
    /\ auth_def["type"] = Str("businessDefinition")
    /\ "url" \in DOMAIN auth_def

\* the loop over the links from the last one to the first
\* (`for auth_def in reversed(prop['authoritativeDefinitions'])`)
RECURSIVE LinkLoopReversed(_, _, _, _, _, _)
LinkLoopReversed(h, st, links, i, base_path, files) ==
    IF i > Len(links) \/ st.raise THEN st
    ELSE LET site == links[Len(links) + 1 - i]
             auth_def == h[site]
         IN  IF LinkQualifies(auth_def)
             THEN LET ref == auth_def["url"].s
                      business_def ==
                          ResolveBusinessDefinition(ref, base_path, files)
                  IN  LinkLoopReversed(h,
                          [raise |-> business_def.raise,
                           node  |-> IF ~business_def.raise
                                        /\ Truthy(business_def)
                                     THEN OdcsMerge(st.node, business_def.d)
                                     ELSE st.node,
                           calls |-> Append(st.calls,
                               CallEntry("odcs", site, ref, business_def))],
                          links, i + 1, base_path, files)
             ELSE LinkLoopReversed(h, st, links, i + 1, base_path, files)

RECURSIVE LinkLoop(_, _, _, _, _, _)
LinkLoop(h, st, links, i, base_path, files) ==
    IF i > Len(links) \/ st.raise THEN st
    ELSE LET auth_def == h[links[i]]
         IN  IF LinkQualifies(auth_def)
             THEN LET ref == auth_def["url"].s
                      business_def ==
                          ResolveBusinessDefinition(ref, base_path, files)
                  IN  LinkLoop(h,
                          [raise |-> business_def.raise,
                           node  |-> IF ~business_def.raise
                                        /\ Truthy(business_def)
                                     THEN OdcsMerge(st.node, business_def.d)
                                     ELSE st.node,
                           calls |-> Append(st.calls,
                               CallEntry("odcs", links[i], ref, business_def))],
                          links, i + 1, base_path, files)
             ELSE LinkLoop(h, st, links, i + 1, base_path, files)

ResolveProperty(h, prop, base_path, files) ==
    IF LinksKey \notin DOMAIN prop
    THEN [raise |-> FALSE, node |-> prop, calls |-> <<>>]
    ELSE LinkLoop(h, [raise |-> FALSE, node |-> prop, calls |-> <<>>],
                  prop[LinksKey].c, 1, base_path, files)

\* process_odcs_property called on each of `pending` in turn
RECURSIVE WalkProperties(_, _, _, _)
WalkProperties(h, pending, base_path, files) ==
    IF pending = <<>> THEN [raise |-> FALSE, h |-> h]
    ELSE LET id == Head(pending)
             r  == ResolveProperty(h, h[id], base_path, files)
         IN  IF r.raise
             THEN [raise |-> TRUE, h |-> [h EXCEPT ![id] = r.node]]
             ELSE WalkProperties([h EXCEPT ![id] = r.node], Tail(pending),
                                 base_path, files)

----------------------------------------------------------------------------
(* The entry points' loops                                                 *)

RECURSIVE Flatten(_)
Flatten(ss) == IF ss = <<>> THEN <<>> ELSE Head(ss) \o Flatten(Tail(ss))

\* the keys of a path item in document order
PathItemKeys == <<"summary", "parameters", "get", "put", "post", "delete">>

\* dict.values() of a path item
PathValues(path) ==
    LET keys == SelectSeq(PathItemKeys, LAMBDA k : k \in DOMAIN path)
    IN  [i \in 1..Len(keys) |-> path[keys[i]]]

\* the process_schema calls for one value of a path item
MethodCalls(h, method) ==
    IF method.t = "dict" /\ "parameters" \in DOMAIN h[method.c[1]]
    THEN LET params == h[method.c[1]]["parameters"].c
         IN  Flatten([i \in 1..Len(params) |->
                 IF "schema" \in DOMAIN h[params[i]]
                 THEN Arg(h[params[i]]["schema"]) ELSE <<>>])
    ELSE <<>>

PathCalls(h, path) ==
    LET methods == PathValues(path)
    IN  Flatten([i \in 1..Len(methods) |-> MethodCalls(h, methods[i])])

\* the loops of postprocess_openapi without the one over paths
OpenapiCallsSchemasOnly(h) ==
    LET spec == h[1]
        components == IF "components" \in DOMAIN spec
                      THEN h[spec["components"].c[1]] ELSE EmptyDict
    IN  IF "components" \in DOMAIN spec /\ "schemas" \in DOMAIN components
        THEN components["schemas"].c ELSE <<>>

\* the process_schema calls of postprocess_openapi, in order
OpenapiCalls(h) ==
    LET spec == h[1]
        components == IF "components" \in DOMAIN spec
                      THEN h[spec["components"].c[1]] ELSE EmptyDict
        schemas == IF "components" \in DOMAIN spec
                      /\ "schemas" \in DOMAIN components
                   THEN components["schemas"].c ELSE <<>>
        paths == IF "paths" \in DOMAIN spec THEN spec["paths"].c ELSE <<>>
    IN  schemas \o Flatten([i \in 1..Len(paths) |-> PathCalls(h, h[paths[i]])])

\* the loops of postprocess_odcs going on into the properties of a property
OdcsCallsDeep(h) ==
    LET contract == h[1]
        objs == IF "schema" \in DOMAIN contract
                THEN contract["schema"].c ELSE <<>>
        props == Flatten([i \in 1..Len(objs) |->
                    IF "properties" \in DOMAIN h[objs[i]]
                    THEN h[objs[i]]["properties"].c ELSE <<>>])
    IN  Flatten([i \in 1..Len(props) |->
            <<props[i]>> \o (IF "properties" \in DOMAIN h[props[i]]
                             THEN h[props[i]]["properties"].c ELSE <<>>)])

\* the process_odcs_property calls of postprocess_odcs, in order
OdcsCalls(h) ==
    LET contract == h[1]
        objs == IF "schema" \in DOMAIN contract
                THEN contract["schema"].c ELSE <<>>
    IN  Flatten([i \in 1..Len(objs) |->
            IF "properties" \in DOMAIN h[objs[i]]
            THEN h[objs[i]]["properties"].c ELSE <<>>])

\* the loops of postprocess_openapi and of postprocess_odcs over a loaded
\* document
WalkOpenapi(h, files) ==
    WalkSchemas(h, OpenapiCalls(h), Parent(OpenapiInput), files)

WalkOdcs(h, files) ==
    WalkProperties(h, OdcsCalls(h), Parent(OdcsInput), files)

----------------------------------------------------------------------------
(* The state machine: __main__ runs postprocess_openapi, then              *)
(* postprocess_odcs; an exception ends the process where it is raised.     *)

NoError == [exc |-> "", path |-> "", run |-> ""]
NoMerge == [node |-> NonDict, source |-> EmptyDict, entries |-> {}]
YamlError(run, path) == [exc |-> "YAMLError", path |-> path, run |-> run]

Init ==
    /\ \E in \in Inputs, def \in DefChoices :
          fs = (OpenapiInput :> in[1]) @@ (OdcsInput :> in[2]) @@
               (OrderIdPath :> def) @@ (EmailPath :> YamlFile(<<EmailDef>>)) @@
               (BrokenPath :> MalformedFile)
    /\ pc = "main"
    /\ heap = <<>>
    /\ loaded = ""
    /\ stack = <<>>
    /\ visited = <<>>
    /\ calls = <<>>
    /\ out = <<>>
    /\ writes = <<>>
    /\ err = NoError
    /\ starts = <<fs>>
    /\ todo = NoMerge

Raise(e) ==
    /\ pc' = "raised"
    /\ err' = e
    /\ stack' = <<>>

\* postprocess_openapi up to its loops: the document is loaded and the
\* process_schema calls of the loops are pending
PostprocessOpenapiLoad ==
    /\ pc = "main"
    /\ LET spec == LoadYaml(fs, OpenapiInput)
       IN  IF spec.raise
           THEN /\ Raise(YamlError("openapi", OpenapiInput))
                /\ UNCHANGED <<heap, loaded>>
           ELSE /\ heap' = spec.nodes
                /\ loaded' = "openapi"
                /\ stack' = OpenapiCalls(spec.nodes)
                /\ pc' = "openapi_walk"
                /\ UNCHANGED err
    /\ UNCHANGED <<fs, visited, calls, out, writes, starts, todo>>

\* process_schema returning where the resolver gave None
\* (`if business_def is None: return`)
ProcessSchemaReturnOnAbsent ==
    /\ pc = "openapi_walk"
    /\ stack # <<>>
    /\ LET id == Head(stack)
       IN  IF id = NonDict
           THEN /\ stack' = Tail(stack)
                /\ UNCHANGED <<pc, heap, visited, calls, out, err>>
           ELSE LET r == ResolveSchema(id, heap[id], Parent(OpenapiInput), fs)
                IN  /\ visited' = Append(visited, <<"openapi", id>>)
                    /\ calls' = calls \o r.calls
                    /\ out' = out \o Flatten([i \in 1..Len(r.calls) |->
                                                  r.calls[i].warns])
                    /\ IF r.raise
                       THEN /\ Raise(YamlError("openapi",
                                         r.calls[Len(r.calls)].reads[1]))
                            /\ UNCHANGED heap
                       ELSE /\ heap' = [heap EXCEPT ![id] = r.node]
                            /\ stack' =
                                  IF r.calls # <<>> /\ r.calls[1].none
                                  THEN Tail(stack)
                                  ELSE SchemaCalls(r.node) \o Tail(stack)
                            /\ UNCHANGED <<pc, err>>
    /\ UNCHANGED <<fs, loaded, writes, starts, todo>>

\* one invocation of process_schema: the next pending call
ProcessSchema ==
    /\ pc = "openapi_walk"
    /\ stack # <<>>
    /\ LET id == Head(stack)
       IN  IF id = NonDict
           THEN /\ stack' = Tail(stack)
                /\ UNCHANGED <<pc, heap, visited, calls, out, err>>
           ELSE LET r == ResolveSchema(id, heap[id], Parent(OpenapiInput), fs)
                IN  /\ visited' = Append(visited, <<"openapi", id>>)
                    /\ calls' = calls \o r.calls
                    /\ out' = out \o Flatten([i \in 1..Len(r.calls) |->
                                                  r.calls[i].warns])
                    /\ IF r.raise
                       THEN /\ Raise(YamlError("openapi",
                                         r.calls[Len(r.calls)].reads[1]))
                            /\ UNCHANGED heap
                       ELSE /\ heap' = [heap EXCEPT ![id] = r.node]
                            /\ stack' = SchemaCalls(r.node) \o Tail(stack)
                            /\ UNCHANGED <<pc, err>>
    /\ UNCHANGED <<fs, loaded, writes, starts, todo>>

\* save_yaml called with input_path: the document is saved in place
PostprocessOpenapiSaveInPlace ==
    /\ pc = "openapi_walk"
    /\ stack = <<>>
    /\ fs' = (OpenapiInput :> YamlFile(heap)) @@ fs
    /\ writes' = Append(writes, OpenapiInput)
    /\ out' = Append(out, "Processed OpenAPI " \o OpenapiInput \o " -> "
                          \o OpenapiOutput)
    /\ pc' = "main_odcs"
    /\ UNCHANGED <<heap, loaded, stack, visited, calls, err, starts, todo>>

\* save_yaml(output_path, spec) and the print after it
PostprocessOpenapiSave ==
    /\ pc = "openapi_walk"
    /\ stack = <<>>
    /\ fs' = (OpenapiOutput :> YamlFile(heap)) @@ fs
    /\ writes' = Append(writes, OpenapiOutput)
    /\ out' = Append(out, "Processed OpenAPI " \o OpenapiInput \o " -> "
                          \o OpenapiOutput)
    /\ pc' = "main_odcs"
    /\ UNCHANGED <<heap, loaded, stack, visited, calls, err, starts, todo>>

\* postprocess_odcs up to its loops
PostprocessOdcsLoad ==
    /\ pc = "main_odcs"
    /\ LET contract == LoadYaml(fs, OdcsInput)
       IN  IF contract.raise
           THEN /\ Raise(YamlError("odcs", OdcsInput))
                /\ UNCHANGED <<heap, loaded>>
           ELSE /\ heap' = contract.nodes
                /\ loaded' = "odcs"
                /\ stack' = OdcsCalls(contract.nodes)
                /\ pc' = "odcs_walk"
                /\ UNCHANGED err
    /\ UNCHANGED <<fs, visited, calls, out, writes, starts, todo>>

\* one invocation of process_odcs_property: the next pending call
ProcessOdcsProperty ==
    /\ pc = "odcs_walk"
    /\ stack # <<>>
    /\ LET id == Head(stack)
           r == ResolveProperty(heap, heap[id], Parent(OdcsInput), fs)
       IN  /\ visited' = Append(visited, <<"odcs", id>>)
           /\ calls' = calls \o r.calls
           /\ out' = out \o Flatten([i \in 1..Len(r.calls) |->
                                         r.calls[i].warns])
           /\ heap' = [heap EXCEPT ![id] = r.node]
           /\ IF r.raise
              THEN Raise(YamlError("odcs", r.calls[Len(r.calls)].reads[1]))
              ELSE /\ stack' = Tail(stack)
                   /\ UNCHANGED <<pc, err>>
    /\ UNCHANGED <<fs, loaded, writes, starts, todo>>

\* save_yaml(output_path, contract) and the print after it
PostprocessOdcsSave ==
    /\ pc = "odcs_walk"
    /\ stack = <<>>
    /\ fs' = (OdcsOutput :> YamlFile(heap)) @@ fs
    /\ writes' = Append(writes, OdcsOutput)
    /\ out' = Append(out, "Processed ODCS " \o OdcsInput \o " -> "
                          \o OdcsOutput)
    /\ pc' = "done"
    /\ UNCHANGED <<heap, loaded, stack, visited, calls, err, starts, todo>>

Next ==
    \/ PostprocessOpenapiLoad
    \/ ProcessSchema
    \/ PostprocessOpenapiSave
    \/ PostprocessOdcsLoad
    \/ ProcessOdcsProperty
    \/ PostprocessOdcsSave

Spec == Init /\ [][Next]_vars

----------------------------------------------------------------------------
(* The script run again.  gen_dir.mkdir(exist_ok=True) lets __main__ start *)
(* on the filesystem an earlier process left, its outputs included; the    *)
(* new process has nothing of the earlier one but the files.               *)

\* the most processes run one after the other on one filesystem
MaxRuns == 3

Rerun ==
    /\ pc \in {"done", "raised"}
    /\ Len(starts) < MaxRuns
    /\ starts' = Append(starts, fs)
    /\ pc' = "main"
    /\ heap' = <<>>
    /\ loaded' = ""
    /\ stack' = <<>>
    /\ visited' = <<>>
    /\ calls' = <<>>
    /\ out' = <<>>
    /\ writes' = <<>>
    /\ err' = NoError
    /\ UNCHANGED <<fs, todo>>

RerunNext == Next \/ Rerun

RerunSpec == Init /\ [][RerunNext]_vars

----------------------------------------------------------------------------
(* What the properties below speak of.                                     *)

Range(f) == {f[i] : i \in DOMAIN f}

InputPath(run)  == IF run = "openapi" THEN OpenapiInput ELSE OdcsInput
OutputPath(run) == IF run = "openapi" THEN OpenapiOutput ELSE OdcsOutput
InputNodes(run) == fs[InputPath(run)].nodes

\* the documents that exist as results: the one in memory and the outputs
Results ==
    (IF loaded = "" THEN {} ELSE {[run |-> loaded, nodes |-> heap]})
    \cup {[run |-> r, nodes |-> fs[OutputPath(r)].nodes] :
             r \in {r \in {"openapi", "odcs"} : OutputPath(r) \in DOMAIN fs}}

\* a run's walk has returned and its output is written
Written(run) == OutputPath(run) \in Range(writes)

\* the file a reference names, and what is there
IsFileRef(ref)     == StartsWith(ref, "file://")
RefPath(run, ref)  ==
    JoinPath(Parent(InputPath(run)), RemovePrefix(ref, "file://"))
MissingRef(run, ref) == IsFileRef(ref) /\ RefPath(run, ref) \notin DOMAIN fs
Resolvable(run, ref) ==
    /\ IsFileRef(ref)
    /\ RefPath(run, ref) \in DOMAIN fs
    /\ fs[RefPath(run, ref)].kind = "yaml"
    /\ fs[RefPath(run, ref)].root = 1
DefinitionOf(run, ref) == fs[RefPath(run, ref)].nodes[1]

\* the tables as the specification states them: source field, target field
OpenapiTable ==
    {<<"type", "type">>, <<"description", "description">>,
     <<"examples", "examples">>, <<"enum", "enum">>, <<"pattern", "pattern">>,
     <<"title", "title">>, <<"classification", "x-classification">>,
     <<"pii", "x-pii">>, <<"criticalDataElement", "x-criticalDataElement">>}

OdcsTable ==
    {<<"title", "businessName">>, <<"type", "logicalType">>,
     <<"description", "description">>, <<"classification", "classification">>,
     <<"examples", "examples">>,
     <<"criticalDataElement", "criticalDataElement">>}

Table(run) == IF run = "openapi" THEN OpenapiTable ELSE OdcsTable
Sources(run) == {e[1] : e \in Table(run)}
Targets(run) == {e[2] : e \in Table(run)}

\* the mappings a schema node leads to: the values of properties, items, and
\* the elements of allOf, oneOf and anyOf
SchemaChildren(d) ==
    UNION {Range(d[k].c) : k \in DOMAIN d \cap
               {"properties", "items", "allOf", "oneOf", "anyOf"}}
    \ {NonDict}

RECURSIVE Descendants(_, _)
Descendants(nodes, S) ==
    LET T == S \cup UNION {SchemaChildren(nodes[n]) : n \in S}
    IN  IF T = S THEN S ELSE Descendants(nodes, T)

\* the schemas under components.schemas, and the schema of every parameter
\* of every operation of every path
ComponentSchemas(nodes) ==
    IF "components" \in DOMAIN nodes[1]
       /\ "schemas" \in DOMAIN nodes[nodes[1]["components"].c[1]]
    THEN Range(nodes[nodes[1]["components"].c[1]]["schemas"].c)
    ELSE {}

Operations(nodes) ==
    IF "paths" \in DOMAIN nodes[1]
    THEN UNION {{nodes[path][k].c[1] :
                    k \in {k \in DOMAIN nodes[path] : nodes[path][k].t = "dict"}} :
                path \in Range(nodes[1]["paths"].c)}
    ELSE {}

ParameterSchemas(nodes) ==
    UNION {{nodes[prm]["schema"].c[1] :
               prm \in {q \in Range(nodes[op]["parameters"].c) :
                           /\ "schema" \in DOMAIN nodes[q]
                           /\ nodes[q]["schema"].t = "dict"}} :
           op \in {o \in Operations(nodes) : "parameters" \in DOMAIN nodes[o]}}

\* the property records the ODCS walker is for: the elements of the
\* properties of the elements of schema
DirectProps(nodes) ==
    IF "schema" \in DOMAIN nodes[1]
    THEN UNION {Range(nodes[obj]["properties"].c) :
                obj \in {o \in Range(nodes[1]["schema"].c) :
                            "properties" \in DOMAIN nodes[o]}}
    ELSE {}

\* the link records of a property, and those of type businessDefinition
\* that carry a url
Links(nodes, p) ==
    IF "authoritativeDefinitions" \in DOMAIN nodes[p]
    THEN Range(nodes[p]["authoritativeDefinitions"].c) ELSE {}

BusinessLinks(nodes, p) ==
    {l \in Links(nodes, p) :
        /\ "type" \in DOMAIN nodes[l]
        /\ nodes[l]["type"].s = "businessDefinition"
        /\ "url" \in DOMAIN nodes[l]}

CallsOf(run, site) ==
    {i \in DOMAIN calls : calls[i].run = run /\ calls[i].site = site}

----------------------------------------------------------------------------
(* C1  Non-overwrite: in every result document (the one in memory during   *)
(* and after the walk, and each written output) every mapped target field  *)
(* that the input's node already had, whatever its value, still has the    *)
(* input's value.                                                          *)

NonOverwrite ==
    \A R \in Results :
        \A n \in DOMAIN InputNodes(R.run) :
            \A k \in Targets(R.run) \cap DOMAIN InputNodes(R.run)[n] :
                /\ k \in DOMAIN R.nodes[n]
                /\ R.nodes[n][k] = InputNodes(R.run)[n][k]

\* the varying schema node had description: null and an empty title, its
\* definition has both fields, the merge added type, and both were kept
NonOverwriteWitness ==
    /\ Written("openapi")
    /\ Resolvable("openapi", InputNodes("openapi")[OpenapiIx.var][RefKey].s)
    /\ LET before == InputNodes("openapi")[OpenapiIx.var]
           after  == fs[OpenapiOutput].nodes[OpenapiIx.var]
           def    == DefinitionOf("openapi", before[RefKey].s)
       IN  /\ {"description", "title"} \subseteq DOMAIN before
           /\ Falsy(before["description"]) /\ Falsy(before["title"])
           /\ {"description", "title", "type"} \subseteq DOMAIN def
           /\ "type" \notin DOMAIN before
           /\ "type" \in DOMAIN after
           /\ after["description"] = Null

----------------------------------------------------------------------------
WalkedSchemas(nodes) ==
    Descendants(nodes, ComponentSchemas(nodes) \cup ParameterSchemas(nodes))

(* C2  OpenAPI mapping completeness: once the OpenAPI output is written,   *)
(* every walked schema node whose reference resolves to a definition with  *)
(* all nine source fields, and which had none of the nine target fields,   *)
(* has every target field equal to the definition's source field.          *)
OpenapiMappingComplete ==
    Written("openapi") =>
        \A n \in WalkedSchemas(InputNodes("openapi")) :
            LET before == InputNodes("openapi")[n]
                after  == fs[OpenapiOutput].nodes[n]
            IN  (/\ RefKey \in DOMAIN before
                 /\ Resolvable("openapi", before[RefKey].s)
                 /\ Sources("openapi") \subseteq
                        DOMAIN DefinitionOf("openapi", before[RefKey].s)
                 /\ Targets("openapi") \cap DOMAIN before = {})
                => \A e \in OpenapiTable :
                       /\ e[2] \in DOMAIN after
                       /\ after[e[2]] =
                              DefinitionOf("openapi", before[RefKey].s)[e[1]]

\* the varying node had no target field, its definition has all nine, and
\* the output carries the renamed classification
OpenapiMappingCompleteWitness ==
    /\ Written("openapi")
    /\ OpenapiIx.var \in WalkedSchemas(InputNodes("openapi"))
    /\ LET before == InputNodes("openapi")[OpenapiIx.var]
           after  == fs[OpenapiOutput].nodes[OpenapiIx.var]
       IN  /\ DOMAIN before = {RefKey}
           /\ before[RefKey].s = OrderIdRef
           /\ fs[OrderIdPath] = YamlFile(<<FullDef>>)
           /\ after["x-classification"] = Str("internal")
           /\ after["x-pii"] = Bool(FALSE)

----------------------------------------------------------------------------
ResolvableLinks(nodes, p) ==
    {l \in BusinessLinks(nodes, p) : Resolvable("odcs", nodes[l]["url"].s)}

(* C3  ODCS mapping completeness: once the ODCS output is written, every   *)
(* property of a schema object that had none of the six target fields and  *)
(* exactly one businessDefinition link that resolves to a definition has,  *)
(* for every table entry, the target field equal to the definition's       *)
(* source field when the definition has it, and no such field otherwise.   *)
OdcsMappingComplete ==
    Written("odcs") =>
        \A p \in DirectProps(InputNodes("odcs")) :
            LET nodes  == InputNodes("odcs")
                after  == fs[OdcsOutput].nodes[p]
            IN  (/\ Cardinality(ResolvableLinks(nodes, p)) = 1
                 /\ Targets("odcs") \cap DOMAIN nodes[p] = {})
                => LET l   == CHOOSE l \in ResolvableLinks(nodes, p) : TRUE
                       def == DefinitionOf("odcs", nodes[l]["url"].s)
                   IN  \A e \in OdcsTable :
                           IF e[1] \in DOMAIN def
                           THEN /\ e[2] \in DOMAIN after
                                /\ after[e[2]] = def[e[1]]
                           ELSE e[2] \notin DOMAIN after

\* the spec's example: the definition {title, type, pii: false} gives
\* businessName and logicalType and no criticalDataElement
OdcsMappingCompleteWitness ==
    /\ Written("odcs")
    /\ fs[OrderIdPath] = YamlFile(<<PartialDef>>)
    /\ LET nodes == InputNodes("odcs")
           after == fs[OdcsOutput].nodes[OdcsIx.var]
       IN  /\ OdcsIx.var \in DirectProps(nodes)
           /\ Cardinality(ResolvableLinks(nodes, OdcsIx.var)) = 1
           /\ Cardinality(Links(nodes, OdcsIx.var)) = 2
           /\ Targets("odcs") \cap DOMAIN nodes[OdcsIx.var] = {}
           /\ after["businessName"] = Str("Order ID")
           /\ after["logicalType"] = Str("string")
           /\ "criticalDataElement" \notin DOMAIN after

----------------------------------------------------------------------------
(* C4  Recursion completeness: once the OpenAPI walk has returned, every   *)
(* mapping reachable from a root process_schema was called on, through any *)
(* chain of properties values, items and allOf/oneOf/anyOf elements, has   *)
(* been visited; if it carries a reference, the reference was passed to    *)
(* the resolver, and if that reference resolves to a definition, every     *)
(* mapped field the node lacked and the definition has is on the node.     *)

RecursionComplete ==
    Written("openapi") =>
        LET nodes == InputNodes("openapi")
            roots == Range(OpenapiCalls(nodes)) \ {NonDict}
        IN  \A n \in Descendants(nodes, roots) :
                /\ <<"openapi", n>> \in Range(visited)
                /\ RefKey \in DOMAIN nodes[n] =>
                     LET ref   == nodes[n][RefKey].s
                         after == fs[OpenapiOutput].nodes[n]
                     IN  /\ \E i \in CallsOf("openapi", n) : calls[i].ref = ref
                         /\ Resolvable("openapi", ref) =>
                              \A e \in OpenapiTable :
                                  (/\ e[1] \in DOMAIN DefinitionOf("openapi", ref)
                                   /\ e[2] \notin DOMAIN nodes[n])
                                  => /\ e[2] \in DOMAIN after
                                     /\ after[e[2]] =
                                            DefinitionOf("openapi", ref)[e[1]]

\* the node under properties -> items -> allOf[1] -> properties and the
\* five children of the node that has all five keys each got a pattern
RecursionCompleteWitness ==
    /\ Written("openapi")
    /\ fs[OrderIdPath] = YamlFile(<<FullDef>>)
    /\ LET nodes == InputNodes("openapi")
           after == fs[OpenapiOutput].nodes
           multi == nodes[OpenapiIx.multi]
       IN  /\ {"properties", "items", "allOf", "oneOf", "anyOf"}
                  \subseteq DOMAIN multi
           /\ Cardinality(SchemaChildren(multi)) = 5
           /\ \A n \in SchemaChildren(multi) \cup {OpenapiIx.deep} :
                  /\ "pattern" \notin DOMAIN nodes[n]
                  /\ "pattern" \in DOMAIN after[n]
           /\ LET order  == CHOOSE n \in ComponentSchemas(nodes) : TRUE
                  lines  == nodes[order]["properties"].c[1]
                  item   == nodes[lines]["items"].c[1]
                  branch == nodes[item]["allOf"].c[2]
              IN  OpenapiIx.deep \in Range(nodes[branch]["properties"].c)

----------------------------------------------------------------------------
EndsWith(s, tail) ==
    Len(s) >= Len(tail) /\ SubSeq(s, Len(s) - Len(tail) + 1, Len(s)) = tail

\* the nodes of a run's input whose references all fail in the way `Bad`
SoftFailed(run, Bad(_, _)) ==
    LET nodes == InputNodes(run)
    IN  IF run = "openapi"
        THEN {n \in DOMAIN nodes :
                 RefKey \in DOMAIN nodes[n] /\ Bad(run, nodes[n][RefKey].s)}
        ELSE {p \in DOMAIN nodes :
                 /\ BusinessLinks(nodes, p) # {}
                 /\ \A l \in BusinessLinks(nodes, p) :
                        Bad(run, nodes[l]["url"].s)}

\* the process is at a place where a step is defined: at a load, or in a
\* walk whose pending calls are all on mappings of the loaded document or
\* on non-mappings (with none pending, the save is the step)
CanStep ==
    \/ pc \in {"main", "main_odcs"}
    \/ /\ pc \in {"openapi_walk", "odcs_walk"}
       /\ Range(stack) \subseteq DOMAIN heap \cup {NonDict}

EndsOnlyOnMalformed ==
    /\ pc = "raised" => /\ err.path \in DOMAIN fs
                        /\ fs[err.path].kind = "malformed"
    /\ pc \notin {"raised", "done"} => CanStep
    /\ pc = "done" => Written("openapi") /\ Written("odcs")

(* C5  Missing-file tolerance: a call of the resolver with a file://       *)
(* reference whose file does not exist does not raise, opens no file,      *)
(* prints exactly one warning, which ends with the file's path, and        *)
(* returns None; a schema node with such a reference, and a property whose *)
(* businessDefinition links all are such references, is in every result    *)
(* exactly as in the input; the process ends early only on a malformed     *)
(* file, a step is defined until it has ended, and when it ends normally   *)
(* both outputs are written.                                               *)
MissingFileTolerance ==
    /\ \A i \in DOMAIN calls :
           MissingRef(calls[i].run, calls[i].ref) =>
               /\ ~calls[i].raise
               /\ calls[i].none
               /\ calls[i].reads = <<>>
               /\ Len(calls[i].warns) = 1
               /\ EndsWith(calls[i].warns[1],
                           RefPath(calls[i].run, calls[i].ref))
               /\ calls[i].warns[1] \in Range(out)
    /\ \A R \in Results :
           \A n \in SoftFailed(R.run, MissingRef) :
               R.nodes[n] = InputNodes(R.run)[n]
    /\ EndsOnlyOnMalformed

\* the varying schema node referred to a missing file and had fields; the
\* warning was printed, the run went on and wrote the node as it was
MissingFileToleranceWitness ==
    /\ pc = "done"
    /\ OpenapiIx.var \in SoftFailed("openapi", MissingRef)
    /\ CallsOf("openapi", OpenapiIx.var) # {}
    /\ NotFound(MissingPath) \in Range(out)
    /\ "type" \in DOMAIN InputNodes("openapi")[OpenapiIx.var]
    /\ fs[OpenapiOutput].nodes[OpenapiIx.var] =
           InputNodes("openapi")[OpenapiIx.var]

----------------------------------------------------------------------------
OtherScheme(run, ref) == ~IsFileRef(ref)

(* C6  Scheme discrimination: a call of the resolver with a reference that *)
(* does not start with file:// does not raise, opens no file, prints       *)
(* nothing and returns None; a schema node with such a reference, and a    *)
(* property whose businessDefinition links all are such references, is in  *)
(* every result exactly as in the input.                                   *)
SchemeDiscrimination ==
    /\ \A i \in DOMAIN calls :
           OtherScheme(calls[i].run, calls[i].ref) =>
               /\ ~calls[i].raise
               /\ calls[i].none
               /\ calls[i].reads = <<>>
               /\ calls[i].warns = <<>>
    /\ \A R \in Results :
           \A n \in SoftFailed(R.run, OtherScheme) :
               R.nodes[n] = InputNodes(R.run)[n]

\* the varying schema node's reference was the path of an existing
\* definition without the scheme: it was passed to the resolver, nothing
\* was printed before the run's final message, and the node is as it was
SchemeDiscriminationWitness ==
    /\ Written("openapi")
    /\ LET before == InputNodes("openapi")[OpenapiIx.var]
       IN  /\ before[RefKey].s \in DOMAIN fs
           /\ fs[before[RefKey].s].kind = "yaml"
           /\ fs[before[RefKey].s].root = 1
           /\ \E i \in CallsOf("openapi", OpenapiIx.var) :
                  calls[i].ref = before[RefKey].s
           /\ fs[OpenapiOutput].nodes[OpenapiIx.var] = before
    /\ Len(out) = 1

----------------------------------------------------------------------------
\* the properties whose call of process_odcs_property has returned
Processed ==
    {p \in DOMAIN heap :
        /\ <<"odcs", p>> \in Range(visited)
        /\ ~(pc = "raised" /\ visited[Len(visited)] = <<"odcs", p>>)}

(* C7  ODCS link filtering: every call of the resolver in the ODCS run is  *)
(* for a link record of a walked property whose type is businessDefinition *)
(* and which carries a url, with that url; and once a property has been    *)
(* processed without an exception, every such link record of it has been   *)
(* passed to the resolver.                                                 *)
LinkFiltering ==
    loaded = "odcs" =>
        LET nodes == InputNodes("odcs")
        IN  /\ \A i \in DOMAIN calls :
                   calls[i].run = "odcs" =>
                       \E p \in DirectProps(nodes) :
                           /\ <<"odcs", p>> \in Range(visited)
                           /\ calls[i].site \in BusinessLinks(nodes, p)
                           /\ calls[i].ref = nodes[calls[i].site]["url"].s
            /\ \A p \in Processed :
                   \A l \in BusinessLinks(nodes, p) : CallsOf("odcs", l) # {}

\* the varying property had a link of another type with the url of an
\* existing definition, a businessDefinition link without a url or a link
\* without a type (none of them resolved), and a link that was resolved
LinkFilteringWitness ==
    /\ pc = "done"
    /\ LET nodes == InputNodes("odcs")
           ls    == Links(nodes, OdcsIx.var)
       IN  /\ OdcsIx.var \in DirectProps(nodes)
           /\ \E l \in ls :
                  /\ "type" \in DOMAIN nodes[l]
                  /\ nodes[l]["type"].s # "businessDefinition"
                  /\ Resolvable("odcs", nodes[l]["url"].s)
                  /\ CallsOf("odcs", l) = {}
           /\ \E l \in ls : CallsOf("odcs", l) # {}
           /\ "businessName" \in DOMAIN fs[OdcsOutput].nodes[OdcsIx.var]

----------------------------------------------------------------------------
Started(run) ==
    IF run = "openapi" THEN pc # "main"
    ELSE pc \in {"odcs_walk", "done"} \/ (pc = "raised" /\ err.run = "odcs")

OpenedMalformed(run) ==
    \E i \in DOMAIN calls :
        /\ calls[i].run = run
        /\ \E f \in Range(calls[i].reads) : fs[f].kind = "malformed"

WalkDone(run) ==
    LET nodes == InputNodes(run)
    IN  /\ stack = <<>> \/ loaded # run
        /\ \A n \in IF run = "openapi"
                    THEN Descendants(nodes, Range(OpenapiCalls(nodes)) \ {NonDict})
                    ELSE DirectProps(nodes) :
               <<run, n>> \in Range(visited)

(* C8  Fatal errors write no output: if a run's input document is          *)
(* malformed and the run has started, or a definition file the run opened  *)
(* is malformed, the process has ended with the exception in that run and  *)
(* the run's output file was neither opened for writing nor exists; and an *)
(* output is written only when every call of the walk has been made.       *)
FatalNoOutput ==
    \A run \in {"openapi", "odcs"} :
        /\ (\/ fs[InputPath(run)].kind = "malformed" /\ Started(run)
            \/ OpenedMalformed(run))
           => /\ pc = "raised"
              /\ err.run = run
              /\ OutputPath(run) \notin Range(writes)
              /\ OutputPath(run) \notin DOMAIN fs
        /\ Written(run) => /\ WalkDone(run)
                           /\ fs[InputPath(run)].kind # "malformed"
                           /\ ~OpenedMalformed(run)

\* the OpenAPI walk had merged definitions in memory when the varying
\* node's definition file turned out malformed: nothing was written
FatalNoOutputWitness ==
    /\ pc = "raised"
    /\ err = YamlError("openapi", BrokenPath)
    /\ OpenedMalformed("openapi")
    /\ heap # InputNodes("openapi")
    /\ writes = <<>>
    /\ DOMAIN fs \cap {OpenapiOutput, OdcsOutput} = {}

----------------------------------------------------------------------------
LacksEntryKey(nodes) ==
    \/ "components" \notin DOMAIN nodes[1]
    \/ "schemas" \notin DOMAIN nodes[nodes[1]["components"].c[1]]
    \/ "paths" \notin DOMAIN nodes[1]

(* C9  OpenAPI entry-point coverage: once the OpenAPI output is written,   *)
(* process_schema has been called on every schema under components.schemas *)
(* and on the schema of every parameter of every operation of every path;  *)
(* and when components, components.schemas or paths is absent, the run     *)
(* ends early only by a malformed definition file and otherwise writes.    *)
EntryPointCoverage ==
    fs[OpenapiInput].kind = "yaml" =>
        LET nodes == InputNodes("openapi")
        IN  /\ Written("openapi") =>
                   \A n \in ComponentSchemas(nodes) \cup ParameterSchemas(nodes) :
                       <<"openapi", n>> \in Range(visited)
            /\ LacksEntryKey(nodes) =>
                   /\ (pc = "raised" /\ err.run = "openapi")
                          => OpenedMalformed("openapi")
                   /\ (pc \in {"main_odcs", "odcs_walk", "done"}
                          \/ (pc = "raised" /\ err.run = "odcs"))
                          => /\ Written("openapi")
                             /\ OpenapiOutput \in DOMAIN fs

\* a document without components: the run wrote its output, having
\* resolved the reference on the schema of the get operation's parameter
EntryPointCoverageWitness ==
    /\ Written("openapi")
    /\ LET nodes == InputNodes("openapi")
       IN  /\ "components" \notin DOMAIN nodes[1]
           /\ OpenapiIx.multi \in ParameterSchemas(nodes)
           /\ "title" \notin DOMAIN nodes[OpenapiIx.multi]
           /\ fs[OpenapiOutput].nodes[OpenapiIx.multi]["title"] =
                  Str("Customer Email")
           /\ fs[OpenapiOutput].nodes[OpenapiIx.pathParam] =
                  nodes[OpenapiIx.pathParam]

----------------------------------------------------------------------------
SiteRef(run, site) ==
    IF run = "openapi" THEN InputNodes(run)[site][RefKey].s
    ELSE InputNodes(run)[site]["url"].s

(* C10  Single-hop resolution: every call of the resolver is for the       *)
(* reference its site has in the input document, opens at most one file,   *)
(* the one that reference names, and no site is resolved twice; no result  *)
(* has a reference field (x-business-definition, authoritativeDefinitions) *)
(* that the input's node did not have with the same value; and the walker  *)
(* is invoked only on mappings of the input document, each once.           *)
SingleHop ==
    /\ \A i \in DOMAIN calls :
           /\ calls[i].ref = SiteRef(calls[i].run, calls[i].site)
           /\ Len(calls[i].reads) <= 1
           /\ \A f \in Range(calls[i].reads) :
                  f = RefPath(calls[i].run, calls[i].ref)
           /\ CallsOf(calls[i].run, calls[i].site) = {i}
    /\ \A R \in Results :
           \A n \in DOMAIN R.nodes :
               \A k \in {RefKey, LinksKey} \cap DOMAIN R.nodes[n] :
                   /\ n \in DOMAIN InputNodes(R.run)
                   /\ k \in DOMAIN InputNodes(R.run)[n]
                   /\ R.nodes[n][k] = InputNodes(R.run)[n][k]
    /\ \A i \in DOMAIN visited :
           /\ visited[i][2] \in
                  IF visited[i][1] = "openapi"
                  THEN Descendants(InputNodes("openapi"),
                           Range(OpenapiCalls(InputNodes("openapi"))) \ {NonDict})
                  ELSE DirectProps(InputNodes("odcs"))
           /\ \A j \in DOMAIN visited : visited[j] = visited[i] => j = i

\* defs/order_id.yaml itself refers to defs/customer_email.yaml: the deep
\* node got the title of the former and nothing of the latter, one file was
\* opened for it, and its reference is the one it had
SingleHopWitness ==
    /\ Written("openapi")
    /\ fs[OrderIdPath] = YamlFile(<<ChainDef>>)
    /\ RefKey \in DOMAIN DefinitionOf("openapi", OrderIdRef)
    /\ Resolvable("openapi", DefinitionOf("openapi", OrderIdRef)[RefKey].s)
    /\ \E i \in CallsOf("openapi", OpenapiIx.deep) :
           calls[i].reads = <<OrderIdPath>>
    /\ LET after == fs[OpenapiOutput].nodes[OpenapiIx.deep]
       IN  /\ after["title"] = Str("Order ID")
           /\ after[RefKey] = Str(OrderIdRef)
           /\ "type" \notin DOMAIN after

----------------------------------------------------------------------------
(* The OpenAPI walk with the order of its loops left open: the calls an    *)
(* invocation of process_schema makes (on the values of properties, on     *)
(* items, on the elements of allOf, oneOf and anyOf) are made in any       *)
(* order, and merge_properties takes the entries of its table in any       *)
(* order.  The stack is a sequence of sets here: the calls each invocation *)
(* in progress has still to make, the innermost first.  The histories are  *)
(* not kept.                                                               *)

\* the invocations that have no call left to make have returned
RECURSIVE Returned(_)
Returned(frames) ==
    IF frames # <<>> /\ Head(frames) = {} THEN Returned(Tail(frames))
    ELSE frames

\* the documents walked in any order: the component schemas with the
\* varying node, and the parameter schema that has all five child keys
AnyOrderInit ==
    /\ Init
    /\ fs[OdcsInput] = PlainOdcs
    /\ \/ /\ fs[OpenapiInput] \in
                 {YamlFile(OpenapiDoc("noPaths", OrderIdRef, p)) :
                     p \in OpenapiPresets}
          /\ fs[OrderIdPath] \in {YamlFile(<<FullDef>>), YamlFile(<<ChainDef>>)}
       \/ /\ fs[OpenapiInput] =
                 YamlFile(OpenapiDoc("noComponents", OrderIdRef, EmptyDict))
          /\ fs[OrderIdPath] = EmptyFile

AnyOrderLoad ==
    /\ pc = "main"
    /\ LET spec  == LoadYaml(fs, OpenapiInput)
           roots == OpenapiCalls(spec.nodes)
       IN  /\ ~spec.raise
           /\ heap' = spec.nodes
           /\ loaded' = "openapi"
           /\ stack' = [i \in 1..Len(roots) |-> {roots[i]}]
           /\ pc' = "openapi_walk"
    /\ UNCHANGED <<fs, visited, calls, out, writes, err, starts, todo>>

\* one invocation of process_schema, any of those the innermost invocation
\* in progress has still to make, up to its call of merge_properties
ProcessSchemaAnyOrder ==
    /\ pc = "openapi_walk"
    /\ todo = NoMerge
    /\ stack # <<>>
    /\ \E id \in Head(stack) :
          LET rest == <<Head(stack) \ {id}>> \o Tail(stack)
          IN  IF id = NonDict
              THEN /\ stack' = Returned(rest)
                   /\ UNCHANGED <<pc, err, todo>>
              ELSE IF RefKey \notin DOMAIN heap[id]
              THEN /\ stack' = Returned(<<Range(SchemaCalls(heap[id]))>> \o rest)
                   /\ UNCHANGED <<pc, err, todo>>
              ELSE LET business_def ==
                           ResolveBusinessDefinition(heap[id][RefKey].s,
                               Parent(OpenapiInput), fs)
                   IN  IF business_def.raise
                       THEN /\ Raise(YamlError("openapi", business_def.reads[1]))
                            /\ UNCHANGED todo
                       ELSE IF Truthy(business_def)
                       THEN /\ todo' = [node |-> id, source |-> business_def.d,
                                        entries |-> DOMAIN OpenapiMapping]
                            /\ stack' = rest
                            /\ UNCHANGED <<pc, err>>
                       ELSE /\ stack' = Returned(
                                   <<Range(SchemaCalls(heap[id]))>> \o rest)
                            /\ UNCHANGED <<pc, err, todo>>
    /\ UNCHANGED <<fs, heap, loaded, visited, calls, out, writes, starts>>

\* one round of the loop of merge_properties, for any entry not yet taken;
\* after the last one the invocation goes on to its own calls
MergeEntryAnyOrder ==
    /\ pc = "openapi_walk"
    /\ todo # NoMerge
    /\ \E i \in todo.entries :
          LET merged == MergeEntry(heap[todo.node], todo.source,
                                   OpenapiMapping[i])
          IN  /\ heap' = [heap EXCEPT ![todo.node] = merged]
              /\ IF todo.entries = {i}
                 THEN /\ todo' = NoMerge
                      /\ stack' = Returned(<<Range(SchemaCalls(merged))>>
                                           \o stack)
                 ELSE /\ todo' = [todo EXCEPT !.entries = @ \ {i}]
                      /\ UNCHANGED stack
    /\ UNCHANGED <<pc, fs, loaded, visited, calls, out, writes, err, starts>>

AnyOrderSave == todo = NoMerge /\ PostprocessOpenapiSave

AnyOrderNext ==
    \/ AnyOrderLoad
    \/ ProcessSchemaAnyOrder
    \/ MergeEntryAnyOrder
    \/ AnyOrderSave

AnyOrderSpec == AnyOrderInit /\ [][AnyOrderNext]_vars

(* C12  Traversal-order independence: with the calls of every invocation  *)
(* of process_schema made in any order and the entries of the mapping      *)
(* table applied in any order, no order raises, and the document written   *)
(* after the OpenAPI walk is the one the walk in the code's order gives.   *)
AnyOrderSame ==
    /\ pc # "raised"
    /\ Written("openapi") =>
           LET w == WalkOpenapi(InputNodes("openapi"), fs)
           IN  ~w.raise /\ fs[OpenapiOutput].nodes = w.h

\* in the middle of a walk that follows neither order of the code: the
\* oneOf element of the node with all five child keys is being merged and
\* has its title, the last entry of the table, but not its type, the first
\* one, while items and the value of properties, which come before oneOf
\* in the code, have not been called on, the allOf element has, and the
\* merged node itself has fields it did not have
AnyOrderSameWitness ==
    /\ pc = "openapi_walk"
    /\ LET nodes == InputNodes("openapi")
           multi == nodes[OpenapiIx.multi]
           one   == multi["oneOf"].c[1]
           item  == multi["items"].c[1]
           prop  == multi["properties"].c[1]
           all   == multi["allOf"].c[1]
       IN  /\ todo.node = one
           /\ "title" \in DOMAIN heap[one]
           /\ "type" \notin DOMAIN heap[one]
           /\ {item, prop} \subseteq Head(stack)
           /\ all \notin Head(stack)
           /\ "x-pii" \in DOMAIN heap[OpenapiIx.multi]
           /\ "x-pii" \notin DOMAIN multi

----------------------------------------------------------------------------
Outputs == {OpenapiOutput, OdcsOutput}

\* the files a process reads: the input documents and the definitions
SourceFiles(files) == [p \in DOMAIN files \ Outputs |-> files[p]]

\* the files the process must have opened for writing to be where it is
WritesAt ==
    CASE pc \in {"main", "openapi_walk"}    -> <<>>
      [] pc \in {"main_odcs", "odcs_walk"}  -> <<OpenapiOutput>>
      [] pc = "done"                        -> <<OpenapiOutput, OdcsOutput>>
      [] pc = "raised" -> IF err.run = "openapi" THEN <<>>
                          ELSE <<OpenapiOutput>>

(* C11  Re-running is safe: with the script run up to MaxRuns times on one *)
(* filesystem, the input documents and the definition files are at every   *)
(* moment as the first process found them; a process changes no file but   *)
(* the outputs it has opened for writing, the OpenAPI run only its own and  *)
(* the ODCS run only its own; an output file an earlier process left has   *)
(* the same content whenever it exists later, and a later process that has *)
(* ended left the same output files; and every process that gets past a    *)
(* walk opens that output for writing again, present and equal or not.     *)
RerunSafe ==
    /\ \A i \in DOMAIN starts : SourceFiles(starts[i]) = SourceFiles(fs)
    /\ writes = WritesAt
    /\ \A p \in DOMAIN fs \ Range(writes) :
           /\ p \in DOMAIN starts[Len(starts)]
           /\ fs[p] = starts[Len(starts)][p]
    /\ DOMAIN starts[Len(starts)] \subseteq DOMAIN fs
    /\ \A i \in DOMAIN starts :
           \A o \in Outputs \cap DOMAIN starts[i] :
               o \in DOMAIN fs /\ fs[o] = starts[i][o]
    /\ (Len(starts) > 1 /\ pc \in {"done", "raised"})
           => fs = starts[Len(starts)]

\* the third process has ended: it opened both outputs for writing, they
\* are as the second and the first process left them, the first process
\* had found none, and the OpenAPI output is not the input's content
RerunSafeWitness ==
    /\ Len(starts) = 3
    /\ pc = "done"
    /\ writes = <<OpenapiOutput, OdcsOutput>>
    /\ Outputs \cap DOMAIN starts[1] = {}
    /\ fs[OpenapiOutput] = starts[2][OpenapiOutput]
    /\ fs[OdcsOutput] = starts[3][OdcsOutput]
    /\ fs[OpenapiOutput] # fs[OpenapiInput]
    /\ fs[OdcsOutput] # fs[OdcsInput]

----------------------------------------------------------------------------
\* a reference that resolves to nothing without an exception
SoftRef(run, ref) == MissingRef(run, ref) \/ OtherScheme(run, ref)

\* the document without the reference of schema node n, and without the
\* link record l in the list of property p
DropRef(nodes, n) ==
    [nodes EXCEPT ![n] = [k \in DOMAIN @ \ {RefKey} |-> @[k]]]

DropLink(nodes, p, l) ==
    [nodes EXCEPT ![p] =
        (LinksKey :> Seqn(SelectSeq(@[LinksKey].c, LAMBDA x : x # l))) @@ @]

ExceptKey(d, key) == [k \in DOMAIN d \ {key} |-> d[k]]

(* C13  A soft failure does not stop the traversal: no call of the         *)
(* resolver with a reference to a missing file or of another scheme        *)
(* raises; once the OpenAPI output is written, for every schema node of    *)
(* the input with such a reference, the mappings its properties, items,    *)
(* allOf, oneOf and anyOf lead to have been called on if the node has, the *)
(* node is as in the input, and every other mapping of the output is what  *)
(* the walk gives for the input without that reference; once the ODCS      *)
(* output is written, for every businessDefinition link of a property with *)
(* such a url, every mapping of the output, the link list of that property *)
(* aside, is what the walk gives for the input without that link record.   *)
SoftFailureContinues ==
    /\ \A i \in DOMAIN calls :
           SoftRef(calls[i].run, calls[i].ref) => ~calls[i].raise
    /\ Written("openapi") =>
           LET nodes == InputNodes("openapi")
               after == fs[OpenapiOutput].nodes
           IN  \A n \in {m \in DOMAIN nodes :
                             /\ RefKey \in DOMAIN nodes[m]
                             /\ SoftRef("openapi", nodes[m][RefKey].s)} :
                   LET w == WalkOpenapi(DropRef(nodes, n), fs)
                   IN  /\ <<"openapi", n>> \in Range(visited) =>
                              \A c \in SchemaChildren(nodes[n]) :
                                  <<"openapi", c>> \in Range(visited)
                       /\ after[n] = nodes[n]
                       /\ ~w.raise
                       /\ \A m \in DOMAIN nodes \ {n} : after[m] = w.h[m]
    /\ Written("odcs") =>
           LET nodes == InputNodes("odcs")
               after == fs[OdcsOutput].nodes
           IN  \A p \in DirectProps(nodes) :
                   \A l \in {x \in BusinessLinks(nodes, p) :
                                 SoftRef("odcs", nodes[x]["url"].s)} :
                       LET w == WalkOdcs(DropLink(nodes, p, l), fs)
                       IN  /\ ~w.raise
                           /\ after[p][LinksKey] = nodes[p][LinksKey]
                           /\ \A m \in DOMAIN nodes :
                                  ExceptKey(after[m], LinksKey) =
                                      ExceptKey(w.h[m], LinksKey)

\* the reference of the schema node with all five child keys named a
\* missing file: the node is as it was and each of its five children got a
\* field it did not have; the first link of the varying property named a
\* missing file: the property got its businessName from the second link
\* and the property after it got one too; both warnings were printed
SoftFailureContinuesWitness ==
    /\ pc = "done"
    /\ Len(SelectSeq(out, LAMBDA x : x = NotFound(MissingPath))) = 2
    /\ LET nodes == InputNodes("openapi")
           after == fs[OpenapiOutput].nodes
           multi == OpenapiIx.multi
       IN  /\ MissingRef("openapi", nodes[multi][RefKey].s)
           /\ after[multi] = nodes[multi]
           /\ Cardinality(SchemaChildren(nodes[multi])) = 5
           /\ \A c \in SchemaChildren(nodes[multi]) :
                  DOMAIN after[c] \ DOMAIN nodes[c] # {}
    /\ LET nodes == InputNodes("odcs")
           after == fs[OdcsOutput].nodes
           links == nodes[OdcsIx.var][LinksKey].c
           props == nodes[nodes[1]["schema"].c[1]]["properties"].c
       IN  /\ Len(links) = 2
           /\ MissingRef("odcs", nodes[links[1]]["url"].s)
           /\ "businessName" \in DOMAIN after[OdcsIx.var]
           /\ props[2] = OdcsIx.var
           /\ "businessName" \in DOMAIN after[props[3]] \ DOMAIN nodes[props[3]]

----------------------------------------------------------------------------
\* the definitions the references of a node of the input resolve to: the
\* one its x-business-definition names, or those its businessDefinition
\* links name
DefinitionsAt(run, n) ==
    LET nodes == InputNodes(run)
    IN  IF run = "openapi"
        THEN IF RefKey \in DOMAIN nodes[n]
                /\ Resolvable(run, nodes[n][RefKey].s)
             THEN {DefinitionOf(run, nodes[n][RefKey].s)} ELSE {}
        ELSE {DefinitionOf(run, nodes[l]["url"].s) :
                 l \in ResolvableLinks(nodes, n)}

\* keys of a definition that no table names as a target
Unmapped == {"format", "id", "owner", "domain", "tags", "pii",
             "x-business-definition", "authoritativeDefinitions"}

(* C14  Merge frame: in every result document (the one in memory during    *)
(* and after the walk, and each written output) the mappings are those of  *)
(* the input; each has every key it had in the input with the same value,  *)
(* the reference and the link list included; every key it did not have is  *)
(* a target name of the run's table whose source field is in a definition  *)
(* the node refers to, with that field's value; no key of a definition     *)
(* that is not a target name appears on a node that did not have it; and   *)
(* the definition files are as the process found them.                     *)
MergeFrame ==
    /\ \A R \in Results :
           LET nodes == InputNodes(R.run)
           IN  /\ DOMAIN R.nodes = DOMAIN nodes
               /\ \A n \in DOMAIN nodes :
                      /\ \A k \in DOMAIN nodes[n] :
                             /\ k \in DOMAIN R.nodes[n]
                             /\ R.nodes[n][k] = nodes[n][k]
                      /\ \A k \in DOMAIN R.nodes[n] \ DOMAIN nodes[n] :
                             /\ k \notin Unmapped \ Targets(R.run)
                             /\ \E e \in Table(R.run) :
                                    /\ e[2] = k
                                    /\ \E def \in DefinitionsAt(R.run, n) :
                                           /\ e[1] \in DOMAIN def
                                           /\ R.nodes[n][k] = def[e[1]]
    /\ SourceFiles(fs) = SourceFiles(starts[1])

\* the varying schema node had type: integer and its definition has all
\* the keys of the specification: the output has the reference, the type
\* it had, the renamed x-pii, and neither format nor owner nor pii; the
\* property of the contract kept its link list, got businessName and has
\* no title; the definition file is as it was
MergeFrameWitness ==
    /\ pc = "done"
    /\ fs[OrderIdPath] = YamlFile(<<FullDef>>)
    /\ {"format", "owner", "pii", "tags"} \subseteq DOMAIN FullDef
    /\ LET before == InputNodes("openapi")[OpenapiIx.var]
           after  == fs[OpenapiOutput].nodes[OpenapiIx.var]
       IN  /\ before = BDef(OrderIdRef) @@ ("type" :> Str("integer"))
           /\ after[RefKey] = Str(OrderIdRef)
           /\ after["type"] = Str("integer")
           /\ "x-pii" \in DOMAIN after
           /\ after["x-pii"] = Bool(FALSE)
           /\ DOMAIN after \cap {"format", "owner", "pii", "tags"} = {}
    /\ LET before == InputNodes("odcs")[OdcsIx.var]
           after  == fs[OdcsOutput].nodes[OdcsIx.var]
       IN  /\ after[LinksKey] = before[LinksKey]
           /\ after["businessName"] = Str("Order ID")
           /\ DOMAIN after \cap {"title", "format", "owner", "pii"} = {}

----------------------------------------------------------------------------
\* the mappings of a contract that carry a link list without being a
\* property of a schema object
DeeperLinked(nodes) ==
    {n \in DOMAIN nodes : LinksKey \in DOMAIN nodes[n]} \ DirectProps(nodes)

(* C15  The ODCS walker is one level deep: process_odcs_property is called *)
(* only on elements of the properties list of an element of the schema     *)
(* list, and once the ODCS output is written it has been called on each of *)
(* them; every call of the resolver in the ODCS run is for a link record   *)
(* of such a property; every other mapping is in the document in memory    *)
(* and in the output as in the input; and a contract without schema, or    *)
(* whose schema objects have no properties, is written as it was read.     *)
OdcsOneLevel ==
    (fs[OdcsInput].kind = "yaml" /\ Started("odcs")) =>
        LET nodes == InputNodes("odcs")
            props == DirectProps(nodes)
        IN  /\ \A i \in DOMAIN visited :
                   visited[i][1] = "odcs" => visited[i][2] \in props
            /\ Written("odcs") =>
                   \A p \in props : <<"odcs", p>> \in Range(visited)
            /\ \A i \in DOMAIN calls :
                   calls[i].run = "odcs" =>
                       calls[i].site \in UNION {Links(nodes, p) : p \in props}
            /\ \A R \in Results :
                   R.run = "odcs" =>
                       \A n \in DOMAIN nodes \ props : R.nodes[n] = nodes[n]
            /\ (Written("odcs") /\ props = {}) =>
                   /\ fs[OdcsOutput] = fs[OdcsInput]
                   /\ \A i \in DOMAIN calls : calls[i].run # "odcs"

\* a property nested in a property has a businessDefinition link to an
\* existing definition: the link was never passed to the resolver and the
\* nested property is written as it was, while the property around it,
\* with a link to the same definition, got its businessName
OdcsOneLevelWitness ==
    /\ pc = "done"
    /\ LET nodes == InputNodes("odcs")
           after == fs[OdcsOutput].nodes
       IN  /\ OdcsIx.nested \in DeeperLinked(nodes)
           /\ \E p \in DirectProps(nodes) :
                  /\ "properties" \in DOMAIN nodes[p]
                  /\ OdcsIx.nested \in Range(nodes[p]["properties"].c)
                  /\ after[p]["businessName"] = Str("Customer Email")
           /\ \A l \in BusinessLinks(nodes, OdcsIx.nested) :
                  /\ Resolvable("odcs", nodes[l]["url"].s)
                  /\ CallsOf("odcs", l) = {}
           /\ BusinessLinks(nodes, OdcsIx.nested) # {}
           /\ after[OdcsIx.nested] = nodes[OdcsIx.nested]

----------------------------------------------------------------------------
\* what a pipeline run gives from its own input document and the
\* definition files alone
RunAlone(run) ==
    IF fs[InputPath(run)].kind = "malformed"
    THEN [raise |-> TRUE, h |-> <<>>]
    ELSE IF run = "openapi" THEN WalkOpenapi(InputNodes(run), fs)
    ELSE WalkOdcs(InputNodes(run), fs)

(* C16  Documents are processed independently: when the process has ended, *)
(* each of the two runs has the result its own input document and the      *)
(* definition files alone determine, whatever the other document is and    *)
(* whatever became of the other run: no output file if its input or a      *)
(* definition it opens is malformed, and otherwise its output file, with   *)
(* the content its walk gives.                                             *)
DocumentsIndependent ==
    pc \in {"done", "raised"} =>
        \A run \in {"openapi", "odcs"} :
            LET alone == RunAlone(run)
            IN  IF alone.raise
                THEN OutputPath(run) \notin DOMAIN fs
                ELSE /\ OutputPath(run) \in DOMAIN fs
                     /\ fs[OutputPath(run)].nodes = alone.h

----------------------------------------------------------------------------
\* the businessDefinition links of a property that resolve to a
\* definition, in the order of the list
ResolvableInOrder(nodes, p) ==
    IF LinksKey \in DOMAIN nodes[p]
    THEN SelectSeq(nodes[p][LinksKey].c,
                   LAMBDA l : l \in ResolvableLinks(nodes, p))
    ELSE <<>>

(* C17  First link wins in ODCS: once the ODCS output is written, for      *)
(* every property of a schema object with at least two businessDefinition  *)
(* links that resolve to a definition, and every table entry whose target  *)
(* field the property did not have: the target field has the value of the  *)
(* source field in the definition of the first link, in list order, whose  *)
(* definition has that source field, and is absent if none has it.         *)
FirstLinkWins ==
    Written("odcs") =>
        LET nodes == InputNodes("odcs")
            after == fs[OdcsOutput].nodes
        IN  \A p \in DirectProps(nodes) :
                LET good == ResolvableInOrder(nodes, p)
                IN  Len(good) >= 2 =>
                        \A e \in {x \in OdcsTable : x[2] \notin DOMAIN nodes[p]} :
                            LET having == SelectSeq(good, LAMBDA l :
                                    e[1] \in DOMAIN
                                        DefinitionOf("odcs", nodes[l]["url"].s))
                            IN  IF having = <<>>
                                THEN e[2] \notin DOMAIN after[p]
                                ELSE /\ e[2] \in DOMAIN after[p]
                                     /\ after[p][e[2]] =
                                            DefinitionOf("odcs",
                                                nodes[having[1]]["url"].s)[e[1]]

\* the varying property had no field and two links, the first to
\* {title, type, pii}, the second to the definition of the customer email,
\* which has a title too: businessName is the first one's title, and
\* description and classification, which only the second has, are its
FirstLinkWinsWitness ==
    /\ Written("odcs")
    /\ fs[OrderIdPath] = YamlFile(<<PartialDef>>)
    /\ LET nodes == InputNodes("odcs")
           after == fs[OdcsOutput].nodes[OdcsIx.var]
           good  == ResolvableInOrder(nodes, OdcsIx.var)
       IN  /\ OdcsIx.var \in DirectProps(nodes)
           /\ Len(good) = 2
           /\ nodes[good[1]]["url"].s = OrderIdRef
           /\ nodes[good[2]]["url"].s = EmailRef
           /\ "title" \in DOMAIN EmailDef
           /\ DOMAIN nodes[OdcsIx.var] \cap Targets("odcs") = {}
           /\ after["businessName"] = Str("Order ID")
           /\ after["description"] = EmailDef["description"]
           /\ after["classification"] = Str("confidential")

----------------------------------------------------------------------------
(* C18  Walker idempotence: once a run has written its output, the walk of *)
(* that run (the loops of postprocess_openapi with process_schema, those   *)
(* of postprocess_odcs with process_odcs_property) over the written        *)
(* document, with the definition files as they are, raises nothing and     *)
(* gives the written document again.                                       *)
WalkerIdempotent ==
    /\ Written("openapi") =>
           LET once  == fs[OpenapiOutput].nodes
               again == WalkOpenapi(once, fs)
           IN  ~again.raise /\ again.h = once
    /\ Written("odcs") =>
           LET once  == fs[OdcsOutput].nodes
               again == WalkOdcs(once, fs)
           IN  ~again.raise /\ again.h = once

\* both walks had changed their documents: the varying schema node, with
\* examples: [] of its own, got the other fields of a definition that has
\* examples, and the property of the contract got its businessName; a
\* second walk finds every site again and resolves the same definitions
WalkerIdempotentWitness ==
    /\ pc = "done"
    /\ fs[OrderIdPath] = YamlFile(<<FullDef>>)
    /\ LET before == InputNodes("openapi")[OpenapiIx.var]
           once   == fs[OpenapiOutput].nodes[OpenapiIx.var]
       IN  /\ "examples" \in DOMAIN before
           /\ "pattern" \in DOMAIN once \ DOMAIN before
           /\ once[RefKey] = Str(OrderIdRef)
           /\ OpenapiCalls(fs[OpenapiOutput].nodes) =
                  OpenapiCalls(InputNodes("openapi"))
    /\ \E p \in DirectProps(InputNodes("odcs")) :
           /\ "businessName" \in DOMAIN fs[OdcsOutput].nodes[p]
                                   \ DOMAIN InputNodes("odcs")[p]
           /\ ResolvableLinks(fs[OdcsOutput].nodes, p) # {}

----------------------------------------------------------------------------
\* the walk of the state machine and the walk as a function agree
WalkAgrees ==
    /\ Written("openapi") =>
           LET w == WalkOpenapi(InputNodes("openapi"), fs)
           IN  ~w.raise /\ w.h = fs[OpenapiOutput].nodes
    /\ Written("odcs") =>
           LET w == WalkOdcs(InputNodes("odcs"), fs)
           IN  ~w.raise /\ w.h = fs[OdcsOutput].nodes
    /\ (pc = "raised" /\ loaded = err.run /\ loaded = "openapi")
           => WalkOpenapi(InputNodes("openapi"), fs).raise
    /\ (pc = "raised" /\ loaded = err.run /\ loaded = "odcs")
           => LET w == WalkOdcs(InputNodes("odcs"), fs)
              IN  w.raise /\ w.h = heap

====
